---- MODULE Spec2Model ----
(***************************************************************************)
(* State-machine model of the route optimiser of routewriter (src/app.py): *)
(* the /optimize handler, build_distance_matrix and solve_vrp.             *)
(*                                                                         *)
(* Python lists are TLA+ sequences, so the element at Python index i is    *)
(* s[i + 1]; loop counters (i_start, j_start, i_offset, j_offset, node     *)
(* numbers, routing indices) keep their 0-based Python values.             *)
(*                                                                         *)
(* Strings are represented by integer codes: 0 is a value that             *)
(* `str(x or "")` turns into "" (key absent, null, ""), -1 is a string of  *)
(* white space only, k > 0 is the k-th distinct non-blank text.            *)
(***************************************************************************)
EXTENDS Integers, Sequences, FiniteSets, TLC

\* ------------------------------------------------------------------ bounds
\* Largest number of technicians / jobs of a request that passes validation.
MaxTech == 3
MaxJobs == 3
\* Longest address list handed directly to build_distance_matrix.
MaxAddr == 12
\* Concurrent requests: how many, and how many nodes (V + J) each has.
MaxWorkers == 2
ConcNodes == 3

\* ------------------------------------------------------- program constants
chunk_size == 10
MAX_TECHNICIANS == 10
MAX_JOBS == 24
SPAN_COEFFICIENT == 100

VARIABLES
    GOOGLE_MAPS_API_KEY, \* TRUE iff the module-level key is a non-empty string
    caller,              \* "optimize" (a /optimize request) | "direct" (build_distance_matrix alone)
    request,             \* the JSON body of the request
    pc,                  \* position of the request: start, client, blocks, solve, respond, done
    cleaned_techs,       \* optimize: cleaned_techs
    cleaned_jobs,        \* optimize: cleaned_jobs
    addresses,           \* optimize: all_addresses / build_distance_matrix: addresses
    gmaps,               \* the provider behind the client returned by get_gmaps_client
    i_start,             \* build_distance_matrix: outer loop counter
    j_start,             \* build_distance_matrix: inner loop counter
    matrix,              \* build_distance_matrix: the local matrix being filled
    calls,               \* every gmaps.distance_matrix call issued so far, in order,
                         \* with the loop counters it was issued at
    distance_matrix,     \* what build_distance_matrix returned to its caller
    build_error,         \* the exception build_distance_matrix raised, if any
    solver_calls,        \* number of times solve_vrp was invoked
    solution,            \* the routes chosen by routing.SolveWithParameters
    vrp_results,         \* what solve_vrp returned
    response,            \* the HTTP response of /optimize
    frames,              \* concurrent requests: request id -> the locals of its optimize call
    heap,                \* concurrent requests: the matrix objects, by the slot they live in
    overlapped           \* concurrent requests: a step was taken while another request was in flight

vars == <<GOOGLE_MAPS_API_KEY, caller, request, pc, cleaned_techs, cleaned_jobs,
          addresses, gmaps, i_start, j_start, matrix, calls, distance_matrix,
          build_error, solver_calls, solution, vrp_results, response,
          frames, heap, overlapped>>

\* ----------------------------------------------------------------- helpers
Range(s) == {s[k] : k \in 1..Len(s)}

RECURSIVE SumSeq(_)
SumSeq(s) == IF s = <<>> THEN 0 ELSE s[1] + SumSeq(Tail(s))

Min2(a, b) == IF a < b THEN a ELSE b

\* Python s[lo:hi] on a list.
Slice(s, lo, hi) == SubSeq(s, lo + 1, Min2(hi, Len(s)))

\* str(x or "").strip(): absent, null, "" and blank strings all become "".
CleanStr(raw) == IF raw <= 0 THEN 0 ELSE raw

\* Python 3 round(t / 60) for an integer t >= 0: round half to even.
PyRound60(t) ==
    LET q == t \div 60
        r == t % 60
    IN  IF r < 30 THEN q
        ELSE IF r > 30 THEN q + 1
        ELSE IF q % 2 = 0 THEN q ELSE q + 1

\* ---------------------------------------------------------------- requests
\* One entry of "technicians" / "jobs": a JSON object with a name and a
\* location, or some JSON value that is not an object.
Entry(isObject, name, loc) == [isObject |-> isObject, name |-> name, loc |-> loc]

\* A JSON field holding a list of entries, or something that is not a list.
Field(isList, items) == [isList |-> isList, items |-> items]

\* The entries of a list of n entries in which entry d (if d in 1..n) has
\* the defect `defect`: "empty" (no location), "blank" (white space only),
\* "nonobject" (the entry is not a JSON object).
MkItems(n, d, defect, named, locBase) ==
    [i \in 1..n |->
        Entry(~(i = d /\ defect = "nonobject"),
              IF named THEN 100 + i ELSE 0,
              IF i = d /\ defect = "empty" THEN 0
              ELSE IF i = d /\ defect = "blank" THEN -1
              ELSE locBase + i)]

Defects == {"empty", "blank", "nonobject"}

FieldValues(lens, locBases) ==
    {Field(FALSE, <<>>)}
    \cup {Field(TRUE, MkItems(n, 0, "empty", named, b)) :
            n \in lens, named \in BOOLEAN, b \in locBases}
    \cup UNION {{Field(TRUE, MkItems(n, d, defect, FALSE, b)) :
                    d \in {1, n}, defect \in Defects, b \in locBases} :
                 n \in lens \ {0}}

TechLens == (0..MaxTech) \cup {MAX_TECHNICIANS + 1}
JobLens == (0..MaxJobs) \cup {MAX_JOBS + 1}

\* A JSON body.  body: "none" (no JSON, or JSON that is falsy), "nonobject"
\* (truthy JSON that is not an object, e.g. [1]), "object".  technicians and
\* jobs are what data.get(key, []) yields; start_location and job_locations
\* are the keys of the single-vehicle form, which optimize never reads.
Body(body, technicians, jobs, start_location, job_locations) ==
    [body |-> body, technicians |-> technicians, jobs |-> jobs,
     start_location |-> start_location, job_locations |-> job_locations]

\* {"start_location": .., "job_locations": [..]}: no "technicians" and no
\* "jobs" key, so data.get returns the default [] for both.
SingleVehicleRequests ==
    {Body("object", Field(TRUE, <<>>), Field(TRUE, <<>>), 1, [k \in 1..n |-> 20 + k]) :
        n \in 1..MaxJobs}

Requests ==
    {Body(b, Field(FALSE, <<>>), Field(FALSE, <<>>), 0, <<>>) : b \in {"none", "nonobject"}}
    \cup {Body("object", t, j, 0, <<>>) :
            t \in FieldValues(TechLens, {0}), j \in FieldValues(JobLens, {0, 20})}
    \cup SingleVehicleRequests

\* --------------------------------------------------------------- responses
\* A cleaned name: the given text, or the default "Technician i" / "Job i".
GivenName(k) == <<"name", k>>
DefaultName(kind, i) == <<kind, i>>
NoName == <<"", 0>>

\* The payload of an {"error": message} body.  msg identifies the message
\* text; who, addr_from, addr_to and reason are the values formatted into it.
Error(msg, who, addr_from, addr_to, reason) ==
    [msg |-> msg, who |-> who, addr_from |-> addr_from, addr_to |-> addr_to,
     reason |-> reason]
NoError == Error("", NoName, 0, 0, "")
SimpleError(msg) == Error(msg, NoName, 0, 0, "")

\* kind: "none" (no response yet), "error" (JSON {"error": ...}),
\* "unhandled" (the handler raised: the framework's own 500 page),
\* "assignments" (the success body).
NoResponse ==
    [status |-> 0, kind |-> "none", error |-> NoError, assignments |-> <<>>,
     total_drive_time_minutes |-> 0, total_jobs |-> 0]
ErrorResponse(status, err) ==
    [NoResponse EXCEPT !.status = status, !.kind = "error", !.error = err]
UnhandledResponse ==
    [NoResponse EXCEPT !.status = 500, !.kind = "unhandled"]
SuccessResponse(assignments, total_minutes, n_jobs) ==
    [status |-> 200, kind |-> "assignments", error |-> NoError,
     assignments |-> assignments, total_drive_time_minutes |-> total_minutes,
     total_jobs |-> n_jobs]

\* -------------------------------------------------------------- validation
\* The default name counts from 0.
CleanName_ZeroBased(entry, kind, i) ==
    IF CleanStr(entry.name) = 0 THEN DefaultName(kind, i)
    ELSE GivenName(CleanStr(entry.name))
\* The name a technician / job entry is given at Python index i.
CleanName(entry, kind, i) ==
    IF CleanStr(entry.name) = 0 THEN DefaultName(kind, i + 1)
    ELSE GivenName(CleanStr(entry.name))

\* An entry the cleaning loops stop at: `t.get` raises on a non-object, and
\* an empty location is rejected.
Stops(entry) == ~entry.isObject \/ CleanStr(entry.loc) = 0

\* Python index of the first entry the loop stops at, or Len(items) if none.
FirstStop(items) ==
    IF \E k \in 1..Len(items) : Stops(items[k])
    THEN (CHOOSE k \in 1..Len(items) :
            Stops(items[k]) /\ \A m \in 1..(k - 1) : ~Stops(items[m])) - 1
    ELSE Len(items)

\* cleaned_techs / cleaned_jobs once the loop ran to its end.
Cleaned(items, kind) ==
    [k \in 1..Len(items) |->
        [name |-> CleanName(items[k], kind, k - 1), location |-> CleanStr(items[k].loc)]]

\* The response of a cleaning loop that stops at Python index i.
StopResponse(items, kind, msg, i) ==
    IF ~items[i + 1].isObject THEN UnhandledResponse
    ELSE ErrorResponse(400, Error(msg, CleanName(items[i + 1], kind, i), 0, 0, ""))

\* Off by one: the limit check lets one technician more through.
TechLimitExceeded_OffByOne(technicians) == Len(technicians) > MAX_TECHNICIANS + 1
TechLimitExceeded(technicians) == Len(technicians) > MAX_TECHNICIANS
JobLimitExceeded(jobs) == Len(jobs) > MAX_JOBS

\* Lines 159-189 of optimize: the response the request is rejected with, or
\* NoResponse when it passes every check.
Validate(req) ==
    LET technicians == req.technicians.items
        jobs == req.jobs.items
    IN  IF req.body = "none"
        THEN ErrorResponse(400, SimpleError("Request body must be JSON."))
        ELSE IF req.body = "nonobject" THEN UnhandledResponse
        ELSE IF ~req.technicians.isList \/ technicians = <<>>
        THEN ErrorResponse(400, SimpleError("At least one technician is required."))
        ELSE IF ~req.jobs.isList \/ jobs = <<>>
        THEN ErrorResponse(400, SimpleError("At least one job is required."))
        ELSE IF TechLimitExceeded(technicians)
        THEN ErrorResponse(400, SimpleError("Maximum 10 technicians per request."))
        ELSE IF JobLimitExceeded(jobs)
        THEN ErrorResponse(400, SimpleError("Maximum 24 jobs per request."))
        ELSE IF FirstStop(technicians) < Len(technicians)
        THEN StopResponse(technicians, "Technician", "Technician is missing a start location.",
                          FirstStop(technicians))
        ELSE IF FirstStop(jobs) < Len(jobs)
        THEN StopResponse(jobs, "Job", "Job is missing a location.", FirstStop(jobs))
        ELSE NoResponse

\* ---------------------------------------------------------------- provider
\* The travel-time provider behind the client: how long it says a trip
\* takes (prof, selfDur) and for which (origin, destination) texts it
\* reports a status other than OK (bad).
DurationProfiles == {"flat100", "flat15", "asym"}
SelfDurations == {0, 5}

PairsWith(a, locs) == {<<a, b>> : b \in locs} \cup {<<b, a>> : b \in locs}

\* No failing pair, one failing pair, or one location the provider cannot
\* resolve at all (every pair with it fails).
BadSets(locs) ==
    {{}} \cup {{p} : p \in locs \X locs} \cup {PairsWith(a, locs) : a \in locs}

ProviderBehaviours(locs) ==
    [prof : DurationProfiles, selfDur : SelfDurations, bad : BadSets(locs)]

NoClient == [prof |-> "", selfDur |-> 0, bad |-> {}]

ProviderStatus(g, a, b) ==
    IF <<a, b>> \in g.bad
    THEN (IF a <= b THEN "NOT_FOUND" ELSE "ZERO_RESULTS")
    ELSE "OK"

ProviderDuration(g, a, b) ==
    IF a = b THEN g.selfDur
    ELSE IF g.prof = "flat100" THEN 100
    ELSE IF g.prof = "flat15" THEN 15
    ELSE 60 * a + b

\* response["rows"] of gmaps.distance_matrix(origins, destinations): one row
\* per origin, one element per destination.
DistanceMatrixRows(g, origins, destinations) ==
    [io \in 1..Len(origins) |->
        [jo \in 1..Len(destinations) |->
            [status |-> ProviderStatus(g, origins[io], destinations[jo]),
             duration |-> IF ProviderStatus(g, origins[io], destinations[jo]) = "OK"
                          THEN ProviderDuration(g, origins[io], destinations[jo])
                          ELSE 0]]]

\* What a call can raise instead of answering (googlemaps.exceptions).
ProviderExceptions == {"ApiError", "TransportError", "Timeout"}

\* ------------------------------------------------------- exceptions raised
Exception(type, err) == [type |-> type, error |-> err]
NoException == Exception("", NoError)

\* -------------------------------------------------- build_distance_matrix
ZeroMatrix(n) == [i \in 1..n |-> [j \in 1..n |-> 0]]

\* The block is scanned column by column.
ScanPos_ColumnMajor(rows, i_offset, j_offset) == j_offset * Len(rows) + i_offset
\* Position of cell (i_offset, j_offset) in the scan of a block's elements.
ScanPos(rows, i_offset, j_offset) == i_offset * Len(rows[1]) + j_offset

Cells(rows) ==
    {<<io, jo>> : io \in 0..(Len(rows) - 1), jo \in 0..(Len(rows[1]) - 1)}

FailCells(rows) == {c \in Cells(rows) : rows[c[1] + 1][c[2] + 1].status /= "OK"}

\* The first element of the scan whose status is not OK.
FirstFail(rows) ==
    CHOOSE c \in FailCells(rows) :
        \A d \in FailCells(rows) : ScanPos(rows, c[1], c[2]) <= ScanPos(rows, d[1], d[2])

\* The chunk's start is forgotten: the row is the offset inside the block.
MatrixRow_NoStart(i_st, i_offset) == i_offset
\* The matrix row / column an element of the block is written to.
MatrixRow(i_st, i_offset) == i_st + i_offset
MatrixCol(j_st, j_offset) == j_st + j_offset

\* Lines 82-84: the matrix after the elements at scan positions pos ..
\* limit - 1 were stored, in scan order.
RECURSIVE WriteCells(_, _, _, _, _, _)
WriteCells(m, rows, i_st, j_st, pos, limit) ==
    IF pos >= limit THEN m
    ELSE LET i_offset == pos \div Len(rows[1])
             j_offset == pos % Len(rows[1])
         IN  WriteCells(
                [m EXCEPT ![MatrixRow(i_st, i_offset) + 1][MatrixCol(j_st, j_offset) + 1] =
                              rows[i_offset + 1][j_offset + 1].duration],
                rows, i_st, j_st, pos + 1, limit)

\* The destination is taken at the chunk's start, not at the failing element.
AddrTo_NoOffset(addrs, j_st, j_offset) == addrs[j_st + 1]
\* The two addresses the ValueError of lines 75-81 names.
AddrFrom(addrs, i_st, i_offset) == addrs[i_st + i_offset + 1]
AddrTo(addrs, j_st, j_offset) == addrs[j_st + j_offset + 1]

PairError(addrs, rows, i_st, j_st, cell) ==
    Exception("ValueError",
              Error("Could not get drive time between", NoName,
                    AddrFrom(addrs, i_st, cell[1]), AddrTo(addrs, j_st, cell[2]),
                    rows[cell[1] + 1][cell[2] + 1].status))

\* ------------------------------------------------ optimize: except clauses
\* Lines 234-248: the response an exception raised inside the try block is
\* turned into.
HandleException(exc) ==
    IF exc.type = "ValueError" THEN ErrorResponse(422, exc.error)
    ELSE IF exc.type = "ApiError"
    THEN ErrorResponse(502, SimpleError("Google Maps API error"))
    ELSE IF exc.type = "TransportError"
    THEN ErrorResponse(503, SimpleError("Could not reach Google Maps API. Check your network."))
    ELSE IF exc.type = "RuntimeError" THEN ErrorResponse(500, exc.error)
    ELSE ErrorResponse(500, SimpleError("An unexpected server error occurred."))

\* --------------------------------------------------------------- solve_vrp
\* RoutingIndexManager(n, n_technicians, starts, ends) with starts = ends =
\* [0, .., n_technicians - 1]: node k has routing index k (the depots are the
\* start indices), and vehicle v gets the extra end index n + v, which maps
\* back to its depot node v.
RoutingStart(vehicle) == vehicle
RoutingEnd(n, vehicle) == n + vehicle
IsEnd(n, index) == index >= n
IndexToNode(n, index) == IF index < n THEN index ELSE index - n

RECURSIVE Perms(_)
Perms(S) ==
    IF S = {} THEN {<<>>}
    ELSE UNION {{<<x>> \o p : p \in Perms(S \ {x})} : x \in S}

\* The routes a feasible assignment consists of: one sequence of job nodes
\* per vehicle, every job node n_technicians .. n - 1 on exactly one of them.
\* The search is time-boxed, so any feasible assignment may be the one found.
Solutions(n_technicians, n_jobs) ==
    LET jobNodes == n_technicians..(n_technicians + n_jobs - 1)
        cuts == {c \in [0..n_technicians -> 0..n_jobs] :
                    /\ c[0] = 0
                    /\ c[n_technicians] = n_jobs
                    /\ \A v \in 1..n_technicians : c[v - 1] <= c[v]}
    IN  {[v \in 1..n_technicians |-> SubSeq(p, c[v - 1] + 1, c[v])] :
            p \in Perms(jobNodes), c \in cuts}

\* solution.Value(routing.NextVar(index)) for the assignment `routes`.
NextVar(routes, n_technicians, n, index) ==
    IF index < n_technicians
    THEN (IF routes[index + 1] = <<>> THEN RoutingEnd(n, index)
          ELSE routes[index + 1][1])
    ELSE LET v == CHOOSE w \in 1..n_technicians : index \in Range(routes[w])
             k == CHOOSE m \in 1..Len(routes[v]) : routes[v][m] = index
         IN  IF k = Len(routes[v]) THEN RoutingEnd(n, v - 1) ELSE routes[v][k + 1]

\* The leg back to the depot is left out.
ArcTime_NoReturn(dm, n, node, next_index) ==
    IF IsEnd(n, next_index) THEN 0 ELSE dm[node + 1][IndexToNode(n, next_index) + 1]
\* The arc added to route_time when the walk leaves `node` for `next_index`.
ArcTime(dm, n, node, next_index) == dm[node + 1][IndexToNode(n, next_index) + 1]

\* The while loop of lines 132-137, from `index` on.
RECURSIVE WalkRoute(_, _, _, _, _, _, _)
WalkRoute(routes, dm, n_technicians, n, index, route_nodes, route_time) ==
    IF IsEnd(n, index) THEN [route_nodes |-> route_nodes, route_time |-> route_time]
    ELSE LET node == IndexToNode(n, index)
             next_index == NextVar(routes, n_technicians, n, index)
         IN  WalkRoute(routes, dm, n_technicians, n, next_index,
                       Append(route_nodes, node),
                       route_time + ArcTime(dm, n, node, next_index))

\* Strict comparison: the first job node is dropped with the depots.
IsJobNode_Strict(n_technicians, node) == node > n_technicians
\* Line 139: the nodes of the walk that are kept as job nodes.
IsJobNode(n_technicians, node) == node >= n_technicians

JobNodes(route_nodes, n_technicians) ==
    SelectSeq(route_nodes, LAMBDA node : IsJobNode(n_technicians, node))

\* The loop stops one vehicle early.
Vehicles_DropLast(n_technicians) == [k \in 1..(n_technicians - 1) |-> k - 1]
\* The vehicles lines 127-140 produce a result for, in order.
Vehicles(n_technicians) == [k \in 1..n_technicians |-> k - 1]

\* Lines 126-142: the list solve_vrp returns for the assignment `routes`.
ExtractResults(routes, dm, n_technicians, n_jobs) ==
    LET n == n_technicians + n_jobs
        vs == Vehicles(n_technicians)
    IN  [k \in 1..Len(vs) |->
            LET walk == WalkRoute(routes, dm, n_technicians, n, RoutingStart(vs[k]), <<>>, 0)
            IN  [job_nodes |-> JobNodes(walk.route_nodes, n_technicians),
                 route_time |-> walk.route_time]]

\* ------------------------------------------------- solve_vrp: the objective
\* Lines 101-104: the transit callback, on routing indices.
TimeCallback(dm, n, from_index, to_index) ==
    dm[IndexToNode(n, from_index) + 1][IndexToNode(n, to_index) + 1]

\* A vehicle whose route visits no job is unused: its start -> end arc costs
\* nothing and it takes no part in the span.
RouteUsed(routes, vehicle) == routes[vehicle + 1] /= <<>>

\* Lines 106-107: the arc cost of the part of a route from `index` on.
RECURSIVE RouteArcCost(_, _, _, _, _)
RouteArcCost(routes, dm, n_technicians, n, index) ==
    IF IsEnd(n, index) THEN 0
    ELSE LET next_index == NextVar(routes, n_technicians, n, index)
         IN  TimeCallback(dm, n, index, next_index)
             + RouteArcCost(routes, dm, n_technicians, n, next_index)

\* Line 109, AddConstantDimension(1, n, True, "count"): every arc adds 1 to
\* the cumul, without slack; `cumul` is the cumul at `index`, the result the
\* cumul at the route's end.
RECURSIVE CountEndCumul(_, _, _, _, _)
CountEndCumul(routes, n_technicians, n, index, cumul) ==
    IF IsEnd(n, index) THEN cumul
    ELSE CountEndCumul(routes, n_technicians, n,
                       NextVar(routes, n_technicians, n, index), cumul + 1)

\* fix_start_cumul_to_zero = True: the cumul at every route's start.
CountStartCumul(vehicle) == 0

SetMax(S) == CHOOSE x \in S : \A y \in S : y <= x
SetMin(S) == CHOOSE x \in S : \A y \in S : x <= y

\* The span of the "count" dimension: the largest end cumul minus the
\* smallest start cumul over the used vehicles.
GlobalSpan(routes, n_technicians, n) ==
    LET used == {v \in 0..(n_technicians - 1) : RouteUsed(routes, v)}
    IN  IF used = {} THEN 0
        ELSE SetMax({CountEndCumul(routes, n_technicians, n, RoutingStart(v),
                                   CountStartCumul(v)) : v \in used})
             - SetMin({CountStartCumul(v) : v \in used})

\* The span cost is never set: only the arcs count.
Objective_NoSpanCost(routes, dm, n_technicians, n) ==
    SumSeq([k \in 1..n_technicians |->
                IF RouteUsed(routes, k - 1)
                THEN RouteArcCost(routes, dm, n_technicians, n, RoutingStart(k - 1))
                ELSE 0])
\* Lines 106-111: what routing.SolveWithParameters minimizes: the arc costs
\* of the used vehicles plus SetGlobalSpanCostCoefficient(100) times the span.
Objective(routes, dm, n_technicians, n) ==
    SumSeq([k \in 1..n_technicians |->
                IF RouteUsed(routes, k - 1)
                THEN RouteArcCost(routes, dm, n_technicians, n, RoutingStart(k - 1))
                ELSE 0])
    + SPAN_COEFFICIENT * GlobalSpan(routes, n_technicians, n)

\* ------------------------------------------------ optimize: response shape
\* Lines 213-218: the stops of one technician.
StopsOf(job_nodes, jobs, n_technicians) ==
    [k \in 1..Len(job_nodes) |->
        [job_name |-> jobs[job_nodes[k] - n_technicians + 1].name,
         location |-> jobs[job_nodes[k] - n_technicians + 1].location]]

\* Lines 210-226: the assignments list.
Assignments(results, techs, jobs) ==
    [k \in 1..Len(results) |->
        [technician |-> techs[k].name,
         start_location |-> techs[k].location,
         stops |-> StopsOf(results[k].job_nodes, jobs, Len(techs)),
         drive_time_minutes |-> PyRound60(results[k].route_time)]]

\* `=` for `+=`: only the last route's seconds are kept.
TotalSeconds_LastOnly(results) == results[Len(results)].route_time
\* Lines 208, 220: total_seconds after the loop.
TotalSeconds(results) == SumSeq([k \in 1..Len(results) |-> results[k].route_time])

\* Lines 228-232.
OptimizeResponse(results, techs, jobs) ==
    SuccessResponse(Assignments(results, techs, jobs),
                    PyRound60(TotalSeconds(results)), Len(jobs))

\* ------------------------------------------------------------------ states
NoRequest == Body("none", Field(FALSE, <<>>), Field(FALSE, <<>>), 0, <<>>)

\* Address lists handed directly to build_distance_matrix: all distinct, or
\* repeating three texts.
AddressLists ==
    {[k \in 1..n |-> k] : n \in 0..MaxAddr}
    \cup {[k \in 1..n |-> ((k - 1) % 3) + 1] : n \in 0..MaxAddr}

\* No concurrent requests are modelled.
NoConcurrency ==
    /\ frames = <<>>
    /\ heap = <<>>
    /\ overlapped = FALSE

Idle ==
    /\ cleaned_techs = <<>>
    /\ cleaned_jobs = <<>>
    /\ gmaps = NoClient
    /\ i_start = 0
    /\ j_start = 0
    /\ matrix = <<>>
    /\ calls = <<>>
    /\ distance_matrix = <<>>
    /\ build_error = NoException
    /\ solver_calls = 0
    /\ solution = <<>>
    /\ vrp_results = <<>>
    /\ response = NoResponse

\* A /optimize request arrives.
Init ==
    /\ GOOGLE_MAPS_API_KEY \in BOOLEAN
    /\ caller = "optimize"
    /\ request \in Requests
    /\ pc = "start"
    /\ addresses = <<>>
    /\ Idle
    /\ NoConcurrency

\* build_distance_matrix is called on its own.
InitMatrix ==
    /\ GOOGLE_MAPS_API_KEY \in BOOLEAN
    /\ caller = "direct"
    /\ request = NoRequest
    /\ pc = "client"
    /\ addresses \in AddressLists
    /\ Idle
    /\ NoConcurrency

\* ----------------------------------------------------------------- actions
\* optimize, lines 159-201: validation, cleaning, the address list.
Optimize ==
    /\ pc = "start"
    /\ IF Validate(request).kind /= "none"
       THEN /\ response' = Validate(request)
            /\ pc' = "done"
            /\ UNCHANGED <<cleaned_techs, cleaned_jobs, addresses>>
       ELSE /\ cleaned_techs' = Cleaned(request.technicians.items, "Technician")
            /\ cleaned_jobs' = Cleaned(request.jobs.items, "Job")
            /\ addresses' = [k \in 1..Len(request.technicians.items) |->
                                CleanStr(request.technicians.items[k].loc)]
                            \o [k \in 1..Len(request.jobs.items) |->
                                CleanStr(request.jobs.items[k].loc)]
            /\ pc' = "client"
            /\ UNCHANGED response
    /\ UNCHANGED <<frames, heap, overlapped>>
    /\ UNCHANGED <<GOOGLE_MAPS_API_KEY, caller, request, gmaps, i_start, j_start,
                   matrix, calls, distance_matrix, build_error, solver_calls,
                   solution, vrp_results>>

\* An exception leaves build_distance_matrix or solve_vrp: optimize's except
\* clauses answer it; a direct caller just sees it.
Raise(exc) ==
    /\ build_error' = exc
    /\ response' = IF caller = "optimize" THEN HandleException(exc) ELSE response
    /\ pc' = "done"

\* build_distance_matrix returns m.
ReturnMatrix(m) ==
    /\ distance_matrix' = m
    /\ pc' = IF caller = "optimize" THEN "solve" ELSE "done"
    /\ UNCHANGED <<build_error, response>>

\* Lines 55-57 (and get_gmaps_client, 45-50).
GetClient ==
    /\ pc = "client"
    /\ IF ~GOOGLE_MAPS_API_KEY
       THEN /\ Raise(Exception("ValueError",
                    SimpleError("GOOGLE_MAPS_API_KEY environment variable is not set.")))
            /\ UNCHANGED <<gmaps, matrix, distance_matrix>>
       ELSE /\ gmaps' \in ProviderBehaviours(Range(addresses))
            /\ matrix' = ZeroMatrix(Len(addresses))
            /\ IF Len(addresses) = 0
               THEN ReturnMatrix(matrix')
               ELSE /\ pc' = "blocks"
                    /\ UNCHANGED <<distance_matrix, build_error, response>>
    /\ i_start' = 0
    /\ j_start' = 0
    /\ UNCHANGED <<frames, heap, overlapped>>
    /\ UNCHANGED <<GOOGLE_MAPS_API_KEY, caller, request, cleaned_techs, cleaned_jobs,
                   addresses, calls, solver_calls, solution, vrp_results>>

\* One pass of the inner loop, lines 61-84: a provider call and the scan of
\* its response.
BlockCall ==
    /\ pc = "blocks"
    /\ LET n == Len(addresses)
           origins == Slice(addresses, i_start, i_start + chunk_size)
           destinations == Slice(addresses, j_start, j_start + chunk_size)
           rows == DistanceMatrixRows(gmaps, origins, destinations)
           j_next == IF j_start + chunk_size < n THEN j_start + chunk_size ELSE 0
           i_next == IF j_start + chunk_size < n THEN i_start ELSE i_start + chunk_size
       IN  /\ calls' = Append(calls, [origins |-> origins, destinations |-> destinations,
                                   i_start |-> i_start, j_start |-> j_start])
           /\ \/ \E type \in ProviderExceptions :
                    /\ Raise(Exception(type, NoError))
                    /\ UNCHANGED <<matrix, distance_matrix, i_start, j_start>>
              \/ /\ FailCells(rows) /= {}
                 /\ matrix' = WriteCells(matrix, rows, i_start, j_start, 0,
                                         ScanPos(rows, FirstFail(rows)[1], FirstFail(rows)[2]))
                 /\ Raise(PairError(addresses, rows, i_start, j_start, FirstFail(rows)))
                 /\ UNCHANGED <<distance_matrix, i_start, j_start>>
              \/ /\ FailCells(rows) = {}
                 /\ matrix' = WriteCells(matrix, rows, i_start, j_start, 0,
                                         Len(rows) * Len(rows[1]))
                 /\ i_start' = i_next
                 /\ j_start' = j_next
                 /\ IF i_next < n
                    THEN UNCHANGED <<pc, distance_matrix, build_error, response>>
                    ELSE ReturnMatrix(matrix')
    /\ UNCHANGED <<frames, heap, overlapped>>
    /\ UNCHANGED <<GOOGLE_MAPS_API_KEY, caller, request, cleaned_techs, cleaned_jobs,
                   addresses, gmaps, solver_calls, solution, vrp_results>>

\* solve_vrp, lines 94-142.
SolveVrp ==
    /\ pc = "solve"
    /\ solver_calls' = solver_calls + 1
    /\ \/ /\ Raise(Exception("RuntimeError",
                    SimpleError("OR-Tools could not find a valid route solution.")))
          /\ UNCHANGED <<solution, vrp_results>>
       \/ /\ solution' \in Solutions(Len(cleaned_techs), Len(cleaned_jobs))
          /\ vrp_results' = ExtractResults(solution', distance_matrix,
                                           Len(cleaned_techs), Len(cleaned_jobs))
          /\ pc' = "respond"
          /\ UNCHANGED <<build_error, response>>
    /\ UNCHANGED <<frames, heap, overlapped>>
    /\ UNCHANGED <<GOOGLE_MAPS_API_KEY, caller, request, cleaned_techs, cleaned_jobs,
                   addresses, gmaps, i_start, j_start, matrix, calls, distance_matrix>>

\* optimize, lines 207-232.
Respond ==
    /\ pc = "respond"
    /\ response' = OptimizeResponse(vrp_results, cleaned_techs, cleaned_jobs)
    /\ pc' = "done"
    /\ UNCHANGED <<frames, heap, overlapped>>
    /\ UNCHANGED <<GOOGLE_MAPS_API_KEY, caller, request, cleaned_techs, cleaned_jobs,
                   addresses, gmaps, i_start, j_start, matrix, calls, distance_matrix,
                   build_error, solver_calls, solution, vrp_results>>

\* Two depots and four jobs in two clusters: nodes 0, 2, 3 around the first
\* depot, nodes 1, 4, 5 around the second; `near` seconds between two nodes
\* of a cluster, `far` seconds between the clusters, both ways.
ClusterOf(node) == IF node \in {0, 2, 3} THEN 0 ELSE 1

ClusterMatrix(near, far) ==
    [i \in 1..6 |->
        [j \in 1..6 |->
            IF i = j THEN 0
            ELSE IF ClusterOf(i - 1) = ClusterOf(j - 1) THEN near
            ELSE far]]

ClusterMatrices == {ClusterMatrix(near, far) : near \in {50, 100}, far \in {140, 500}}

\* solve_vrp is called on its own with a clustered matrix, V = 2, J = 4.
InitSolver ==
    /\ GOOGLE_MAPS_API_KEY = TRUE
    /\ caller = "solver"
    /\ request = NoRequest
    /\ pc = "solve"
    /\ addresses = <<>>
    /\ cleaned_techs = [k \in 1..2 |-> [name |-> DefaultName("Technician", k), location |-> k]]
    /\ cleaned_jobs = [k \in 1..4 |-> [name |-> DefaultName("Job", k), location |-> 20 + k]]
    /\ gmaps = NoClient
    /\ i_start = 0
    /\ j_start = 0
    /\ matrix = <<>>
    /\ calls = <<>>
    /\ distance_matrix \in ClusterMatrices
    /\ build_error = NoException
    /\ solver_calls = 0
    /\ solution = <<>>
    /\ vrp_results = <<>>
    /\ response = NoResponse
    /\ NoConcurrency

\* ------------------------------------------------------ concurrent requests
\* Flask serves each request in a thread of its own: the locals of optimize,
\* build_distance_matrix and solve_vrp live in that thread's frames, the
\* matrix object on the heap.  One step below is one of the sequential
\* actions above, taken by request r on its own frame.
Workers == 1..MaxWorkers

\* The /optimize bodies sent concurrently: no JSON at all, or ConcNodes
\* nodes, all unnamed: one technician with all the jobs, or one job for all
\* the technicians.
ConcRequests ==
    {NoRequest}
    \cup {Body("object", Field(TRUE, MkItems(v, 0, "empty", FALSE, 0)),
               Field(TRUE, MkItems(ConcNodes - v, 0, "empty", FALSE, 20)), 0, <<>>) :
            v \in {1, ConcNodes - 1}}

\* The provider resolves every pair, or cannot resolve the first address.
ConcBehaviours(addrs) ==
    [prof : {"asym"}, selfDur : {0}, bad : {{}, PairsWith(addrs[1], Range(addrs))}]

\* The locals of a request that has just arrived.  matrix and
\* distance_matrix are references to a heap slot (0: unbound).
Frame(req) ==
    [request |-> req, pc |-> "start", cleaned_techs |-> <<>>, cleaned_jobs |-> <<>>,
     addresses |-> <<>>, gmaps |-> NoClient, i_start |-> 0, j_start |-> 0,
     matrix |-> 0, distance_matrix |-> 0, build_error |-> NoException,
     solution |-> <<>>, vrp_results |-> <<>>, response |-> NoResponse]

\* One matrix object for all calls, as a module-level buffer would be.
MatrixSlot_Shared(r) == 1
\* Line 57: the list comprehension builds a new object in every call; the
\* slot of the object request r's call builds.
MatrixSlot(r) == r

InitConc ==
    /\ GOOGLE_MAPS_API_KEY \in BOOLEAN
    /\ caller = "concurrent"
    /\ request = NoRequest
    /\ pc = "concurrent"
    /\ addresses = <<>>
    /\ Idle
    /\ frames \in [Workers -> {Frame(req) : req \in ConcRequests}]
    /\ heap = [s \in Workers |-> <<>>]
    /\ overlapped = FALSE

\* The frame after an exception left the try block of optimize.
Raised(f, exc) ==
    [f EXCEPT !.build_error = exc, !.response = HandleException(exc), !.pc = "done"]

InFlight(q) == frames[q].pc \notin {"start", "done"}

\* Request r takes a step; the variables of the single-request runs rest.
Step(r) ==
    /\ overlapped' = (overlapped \/ \E q \in Workers \ {r} : InFlight(q))
    /\ UNCHANGED <<GOOGLE_MAPS_API_KEY, caller, request, pc, cleaned_techs, cleaned_jobs,
                   addresses, gmaps, i_start, j_start, matrix, calls, distance_matrix,
                   build_error, solver_calls, solution, vrp_results, response>>

\* optimize, lines 159-201, by request r.
CStart(r) ==
    /\ frames[r].pc = "start"
    /\ LET f == frames[r]
           technicians == f.request.technicians.items
           jobs == f.request.jobs.items
       IN  frames' = [frames EXCEPT ![r] =
                IF Validate(f.request) /= NoResponse
                THEN [f EXCEPT !.response = Validate(f.request), !.pc = "done"]
                ELSE [f EXCEPT !.cleaned_techs = Cleaned(technicians, "Technician"),
                               !.cleaned_jobs = Cleaned(jobs, "Job"),
                               !.addresses =
                                    [k \in 1..Len(technicians) |-> CleanStr(technicians[k].loc)]
                                    \o [k \in 1..Len(jobs) |-> CleanStr(jobs[k].loc)],
                               !.pc = "client"]]
    /\ UNCHANGED heap
    /\ Step(r)

\* Lines 55-57 (and get_gmaps_client), by request r.
CGetClient(r) ==
    /\ frames[r].pc = "client"
    /\ LET f == frames[r]
           n == Len(f.addresses)
       IN  IF ~GOOGLE_MAPS_API_KEY
           THEN /\ frames' = [frames EXCEPT ![r] =
                        Raised(f, Exception("ValueError",
                            SimpleError("GOOGLE_MAPS_API_KEY environment variable is not set.")))]
                /\ UNCHANGED heap
           ELSE \E g \in ConcBehaviours(f.addresses) :
                    /\ heap' = [heap EXCEPT ![MatrixSlot(r)] = ZeroMatrix(n)]
                    /\ frames' = [frames EXCEPT ![r] =
                            [f EXCEPT !.gmaps = g, !.matrix = MatrixSlot(r),
                                      !.i_start = 0, !.j_start = 0,
                                      !.distance_matrix = IF n = 0 THEN MatrixSlot(r) ELSE 0,
                                      !.pc = IF n = 0 THEN "solve" ELSE "blocks"]]
    /\ Step(r)

\* One pass of the inner loop, lines 61-84, by request r.
CBlockCall(r) ==
    /\ frames[r].pc = "blocks"
    /\ LET f == frames[r]
           n == Len(f.addresses)
           origins == Slice(f.addresses, f.i_start, f.i_start + chunk_size)
           destinations == Slice(f.addresses, f.j_start, f.j_start + chunk_size)
           rows == DistanceMatrixRows(f.gmaps, origins, destinations)
           j_next == IF f.j_start + chunk_size < n THEN f.j_start + chunk_size ELSE 0
           i_next == IF f.j_start + chunk_size < n THEN f.i_start ELSE f.i_start + chunk_size
       IN  \/ \E type \in ProviderExceptions :
                /\ frames' = [frames EXCEPT ![r] = Raised(f, Exception(type, NoError))]
                /\ UNCHANGED heap
           \/ /\ FailCells(rows) /= {}
              /\ heap' = [heap EXCEPT ![f.matrix] =
                            WriteCells(heap[f.matrix], rows, f.i_start, f.j_start, 0,
                                       ScanPos(rows, FirstFail(rows)[1], FirstFail(rows)[2]))]
              /\ frames' = [frames EXCEPT ![r] =
                            Raised(f, PairError(f.addresses, rows, f.i_start, f.j_start,
                                                FirstFail(rows)))]
           \/ /\ FailCells(rows) = {}
              /\ heap' = [heap EXCEPT ![f.matrix] =
                            WriteCells(heap[f.matrix], rows, f.i_start, f.j_start, 0,
                                       Len(rows) * Len(rows[1]))]
              /\ frames' = [frames EXCEPT ![r] =
                            [f EXCEPT !.i_start = i_next, !.j_start = j_next,
                                      !.distance_matrix = IF i_next < n THEN 0 ELSE f.matrix,
                                      !.pc = IF i_next < n THEN "blocks" ELSE "solve"]]
    /\ Step(r)

\* solve_vrp, lines 94-142, by request r: the callbacks and the extraction
\* loop read the matrix object the build returned.
CSolveVrp(r) ==
    /\ frames[r].pc = "solve"
    /\ LET f == frames[r] IN
       \/ frames' = [frames EXCEPT ![r] =
                Raised(f, Exception("RuntimeError",
                    SimpleError("OR-Tools could not find a valid route solution.")))]
       \/ \E routes \in Solutions(Len(f.cleaned_techs), Len(f.cleaned_jobs)) :
            frames' = [frames EXCEPT ![r] =
                [f EXCEPT !.solution = routes,
                          !.vrp_results = ExtractResults(routes, heap[f.distance_matrix],
                                                         Len(f.cleaned_techs),
                                                         Len(f.cleaned_jobs)),
                          !.pc = "respond"]]
    /\ UNCHANGED heap
    /\ Step(r)

\* optimize, lines 207-232, by request r.
CRespond(r) ==
    /\ frames[r].pc = "respond"
    /\ frames' = [frames EXCEPT ![r] =
            [frames[r] EXCEPT !.response = OptimizeResponse(frames[r].vrp_results,
                                                            frames[r].cleaned_techs,
                                                            frames[r].cleaned_jobs),
                              !.pc = "done"]]
    /\ UNCHANGED heap
    /\ Step(r)

Next == Optimize \/ GetClient \/ BlockCall \/ SolveVrp \/ Respond

Spec == Init /\ [][Next]_vars

NextMatrix == GetClient \/ BlockCall

SpecMatrix == InitMatrix /\ [][NextMatrix]_vars

NextSolver == SolveVrp

SpecSolver == InitSolver /\ [][NextSolver]_vars

NextConc ==
    \E r \in Workers :
        CStart(r) \/ CGetClient(r) \/ CBlockCall(r) \/ CSolveVrp(r) \/ CRespond(r)

SpecConc == InitConc /\ [][NextConc]_vars

\* ------------------------------------------------------------------ claims
Abs(x) == IF x < 0 THEN -x ELSE x

Succeeded == response.kind = "assignments"

\* What the caller submitted, entry by entry (valid requests only).
SubmittedTechs == request.technicians.items
SubmittedJobs == request.jobs.items

\* Every stop of the response, technician after technician.
RECURSIVE Flatten(_)
Flatten(ss) == IF ss = <<>> THEN <<>> ELSE ss[1] \o Flatten(Tail(ss))

AllStops == Flatten([k \in 1..Len(response.assignments) |-> response.assignments[k].stops])

\* The stop a submitted job at Python position i is reported as.  Job names
\* (given or default) differ from position to position, so a stop identifies
\* the position it stands for.
StopFor(i) ==
    [job_name |-> CleanName(SubmittedJobs[i + 1], "Job", i),
     location |-> CleanStr(SubmittedJobs[i + 1].loc)]

Occurrences(stops, stop) == Cardinality({k \in 1..Len(stops) : stops[k] = stop})

\* C1: in a success response the stops of all assignments are a partition of
\* the submitted jobs: every job position 0..J-1 is the stop of exactly one
\* technician exactly once, and the number of stops is J = total_jobs.
C1_StopsPartitionJobs ==
    Succeeded =>
        /\ \A i \in 0..(Len(SubmittedJobs) - 1) : Occurrences(AllStops, StopFor(i)) = 1
        /\ Len(AllStops) = Len(SubmittedJobs)
        /\ response.total_jobs = Len(SubmittedJobs)

\* A success in which one technician has two stops and another has one.
C1_Witness ==
    /\ Succeeded
    /\ \E a, b \in 1..Len(response.assignments) :
            Len(response.assignments[a].stops) = 2 /\ Len(response.assignments[b].stops) = 1

\* C2: in a success response the assignments list has one entry per
\* submitted technician, in input order, also for technicians without stops.
C2_OneEntryPerTechnician ==
    Succeeded =>
        /\ Len(response.assignments) = Len(SubmittedTechs)
        /\ \A k \in 1..Len(response.assignments) :
                /\ k <= Len(SubmittedTechs)
                /\ response.assignments[k].technician =
                        CleanName(SubmittedTechs[k], "Technician", k - 1)
                /\ response.assignments[k].start_location = CleanStr(SubmittedTechs[k].loc)

\* A success with three technicians of whom the last has no stop.
C2_Witness ==
    /\ Succeeded
    /\ Len(response.assignments) = 3
    /\ response.assignments[3].stops = <<>>
    /\ response.assignments[1].stops /= <<>>

\* The provider answered call k (the last call may have raised instead).
Answered(k) == k < Len(calls) \/ build_error.type \notin ProviderExceptions

\* The provider reported a status other than OK for a pair of some call.
ProviderReportedFailure ==
    \E k \in 1..Len(calls) :
        /\ Answered(k)
        /\ \E o \in Range(calls[k].origins), d \in Range(calls[k].destinations) :
                ProviderStatus(gmaps, o, d) /= "OK"

\* C3: once the provider has reported a non-OK status for a pair, the request
\* is over without solve_vrp having been invoked, it returns no assignments,
\* and the error names the two addresses of a pair, asked for in that call,
\* that the provider failed.
C3_PairFailureAborts ==
    ProviderReportedFailure =>
        /\ pc = "done"
        /\ solver_calls = 0
        /\ vrp_results = <<>>
        /\ response.kind = "error"
        /\ response.assignments = <<>>
        /\ response.error.msg = "Could not get drive time between"
        /\ ProviderStatus(gmaps, response.error.addr_from, response.error.addr_to) /= "OK"
        /\ response.error.reason =
                ProviderStatus(gmaps, response.error.addr_from, response.error.addr_to)
        /\ response.error.addr_from \in Range(calls[Len(calls)].origins)
        /\ response.error.addr_to \in Range(calls[Len(calls)].destinations)

\* A failing pair that is not the first element of the scan.
C3_Witness ==
    /\ ProviderReportedFailure
    /\ Len(addresses) >= 3
    /\ response.error.addr_from = addresses[2]
    /\ response.error.addr_to = addresses[3]

\* The validation failures of /optimize: no JSON body, no technicians, no
\* jobs, too many technicians or jobs, a technician without a start
\* location, a job without a location.
HasEmptyLocation(field) ==
    \E k \in 1..Len(field.items) :
        field.items[k].isObject /\ field.items[k].loc \in {0, -1}

FailsValidation(req) ==
    \/ req.body = "none"
    \/ /\ req.body = "object"
       /\ \/ ~req.technicians.isList
          \/ ~req.jobs.isList
          \/ Len(req.technicians.items) = 0
          \/ Len(req.jobs.items) = 0
          \/ Len(req.technicians.items) > 10
          \/ Len(req.jobs.items) > 24
          \/ HasEmptyLocation(req.technicians)
          \/ HasEmptyLocation(req.jobs)

\* C4: a request that fails validation never gets past the handler's checks:
\* no client is created, no provider call and no solver call is made, and
\* the request ends with an error response.
C4_RejectedBeforeAnyCall ==
    FailsValidation(request) =>
        /\ pc \in {"start", "done"}
        /\ gmaps = NoClient
        /\ calls = <<>>
        /\ solver_calls = 0
        /\ pc = "done" => response.status >= 400

\* Eleven technicians, rejected with 400.
C4_Witness ==
    /\ pc = "done"
    /\ Len(request.technicians.items) = 11
    /\ request.jobs.items /= <<>>
    /\ response.status = 400
    /\ response.error.msg = "Maximum 10 technicians per request."
    /\ calls = <<>>

\* Input that is wrong in shape or content: what fails validation, a JSON
\* body that is not an object, an entry that is not an object.
HasNonObject(field) == \E k \in 1..Len(field.items) : ~field.items[k].isObject

InputInvalid(req) ==
    \/ FailsValidation(req)
    \/ req.body = "nonobject"
    \/ req.body = "object" /\ (HasNonObject(req.technicians) \/ HasNonObject(req.jobs))

\* C5: every input validation error (malformed shape, missing fields, limits
\* exceeded, empty locations) is answered with HTTP 400 or 422 and a body
\* {error: message} with a specific message, and with nothing else.
C5_ValidationErrorsAre4xx ==
    (pc = "done" /\ InputInvalid(request)) =>
        /\ response.kind = "error"
        /\ response.status \in {400, 422}
        /\ response.error.msg /= ""

GenericMessage == "An unexpected server error occurred."

\* C6: for a request that passes validation the status follows the failure
\* kind: provider unreachable or unusable 503, provider API error 502, no
\* solution 500, any other exception 500 with the generic message; 502 and
\* 503 are given for nothing else, and 400/422 only for what the caller
\* submitted (here: an address pair the provider could not resolve).
C6_StatusByFailureKind ==
    (pc = "done" /\ ~InputInvalid(request)) =>
        /\ (~GOOGLE_MAPS_API_KEY \/ build_error.type = "TransportError") <=> response.status = 503
        /\ build_error.type = "ApiError" <=> response.status = 502
        /\ build_error.type = "RuntimeError" => response.status = 500
        /\ build_error.type = "Timeout" =>
                response.status = 500 /\ response.error.msg = GenericMessage
        /\ response.status \in {400, 422} => ProviderReportedFailure

\* Sum of the matrix entries along a sequence of nodes.
RECURSIVE TourTime(_, _)
TourTime(dm, tour) ==
    IF Len(tour) < 2 THEN 0
    ELSE dm[tour[1] + 1][tour[2] + 1] + TourTime(dm, Tail(tour))

ClosedTour(depot, job_nodes) == <<depot>> \o job_nodes \o <<depot>>

ExampleMatrix == <<(<<0, 100>>), (<<100, 0>>)>>

\* C7: for each vehicle v solve_vrp returns the job nodes of v's route in
\* visit order, without the depot, and the sum of the matrix entries along
\* the closed tour depot v -> job nodes -> depot v; for V = 1, J = 1 and the
\* matrix [[0,100],[100,0]] that is route [1], 200 seconds, reported as 3
\* minutes.
C7_RouteAndRoundTripTime ==
    vrp_results /= <<>> =>
        /\ Len(vrp_results) = Len(cleaned_techs)
        /\ \A v \in 0..(Len(vrp_results) - 1) :
                /\ vrp_results[v + 1].job_nodes = solution[v + 1]
                /\ vrp_results[v + 1].route_time =
                        TourTime(distance_matrix, ClosedTour(v, solution[v + 1]))
        /\ distance_matrix = ExampleMatrix =>
                /\ vrp_results = <<[job_nodes |-> <<1>>, route_time |-> 200]>>
                /\ Succeeded => response.assignments[1].drive_time_minutes = 3

\* The example: one technician, one job 100 s away, answered.
C7_Witness ==
    /\ Succeeded
    /\ distance_matrix = ExampleMatrix
    /\ response.assignments[1].drive_time_minutes = 3
    /\ response.total_drive_time_minutes = 3

SumMinutes ==
    SumSeq([k \in 1..Len(response.assignments) |-> response.assignments[k].drive_time_minutes])

\* C8 as stated: in a success response total_drive_time_minutes and the sum
\* of the drive_time_minutes differ by at most 1 minute.
C8_TotalWithinOneMinute ==
    Succeeded => Abs(response.total_drive_time_minutes - SumMinutes) <= 1

\* C8, amended: they differ by at most (V + 1) / 2 minutes, V being the
\* number of technicians: each of the V + 1 roundings moves its value by at
\* most half a minute.
C8_TotalWithinRounding ==
    Succeeded =>
        2 * Abs(response.total_drive_time_minutes - SumMinutes)
            <= Len(response.assignments) + 1

\* Three routes of 30 s each: 0 + 0 + 0 minutes against round(1.5) = 2.
C8_Witness ==
    /\ Succeeded
    /\ Len(response.assignments) = 3
    /\ \A k \in 1..3 : vrp_results[k].route_time = 30
    /\ SumMinutes = 0
    /\ response.total_drive_time_minutes = 2

\* build_distance_matrix returned (called on its own).
Returned == caller = "direct" /\ pc = "done" /\ build_error = NoException

\* C9: a matrix returned for N addresses is N x N, its entries are
\* non-negative integers and its diagonal is 0, whatever the provider
\* answered with status OK.
C9_SquareNonNegativeZeroDiagonal ==
    Returned =>
        /\ Len(distance_matrix) = Len(addresses)
        /\ \A i \in 1..Len(distance_matrix) :
                /\ Len(distance_matrix[i]) = Len(addresses)
                /\ \A j \in 1..Len(distance_matrix[i]) : distance_matrix[i][j] \in Nat
                /\ distance_matrix[i][i] = 0

CeilDiv(a, b) == (a + b - 1) \div b

\* The matrix rows / columns call k asked for.
CallRows(k) == calls[k].i_start..(calls[k].i_start + Len(calls[k].origins) - 1)
CallCols(k) == calls[k].j_start..(calls[k].j_start + Len(calls[k].destinations) - 1)

\* C10: a successful build for N addresses has issued ceil(N/10)^2 calls of
\* at most 10 origins and 10 destinations each, every ordered pair (i, j) is
\* asked for by exactly one call, and matrix[i][j] is the duration the
\* provider reported for addresses[i] -> addresses[j].
C10_BlocksCoverMatrix ==
    Returned =>
        LET n == Len(addresses) IN
        /\ Len(calls) = CeilDiv(n, 10) * CeilDiv(n, 10)
        /\ \A k \in 1..Len(calls) :
                /\ Len(calls[k].origins) <= 10
                /\ Len(calls[k].destinations) <= 10
                /\ \A i \in CallRows(k) :
                        calls[k].origins[i - calls[k].i_start + 1] = addresses[i + 1]
                /\ \A j \in CallCols(k) :
                        calls[k].destinations[j - calls[k].j_start + 1] = addresses[j + 1]
        /\ \A i, j \in 0..(n - 1) :
                /\ Cardinality({k \in 1..Len(calls) : i \in CallRows(k) /\ j \in CallCols(k)}) = 1
                /\ distance_matrix[i + 1][j + 1] =
                        ProviderDuration(gmaps, addresses[i + 1], addresses[j + 1])

\* Eleven distinct addresses: four calls, the last for a single pair.
C10_Witness ==
    /\ Returned
    /\ Len(addresses) = 11
    /\ addresses[11] = 11
    /\ Len(calls) = 4
    /\ Len(calls[4].origins) = 1
    /\ gmaps.prof = "asym"

\* What the objective is compared with: the travel seconds of all routes
\* (an idle vehicle travels nothing) and the jobs per route.
RawTravel(routes, dm) ==
    SumSeq([k \in 1..Len(routes) |->
                IF routes[k] = <<>> THEN 0 ELSE TourTime(dm, ClosedTour(k - 1, routes[k]))])

Loads(routes) == {Len(routes[k]) : k \in 1..Len(routes)}

SolverObjective(routes) ==
    Objective(routes, distance_matrix, Len(cleaned_techs),
              Len(cleaned_techs) + Len(cleaned_jobs))

FeasibleRoutes == Solutions(Len(cleaned_techs), Len(cleaned_jobs))

Minimizes(routes) == \A other \in FeasibleRoutes : SolverObjective(routes) <= SolverObjective(other)

Balanced(routes) == \A k \in 1..Len(routes) : Len(routes[k]) = 2

\* C11 as stated: the objective of a solution is its total arc cost plus
\* 100 times (largest route load - smallest route load), and for the
\* clustered V = 2, J = 4 matrices every minimizer gives each vehicle 2 jobs.
C11_ObjectiveIsLoadSpread ==
    solution /= <<>> =>
        /\ SolverObjective(solution) =
                RawTravel(solution, distance_matrix)
                + 100 * (SetMax(Loads(solution)) - SetMin(Loads(solution)))
        /\ Minimizes(solution) => Balanced(solution)

\* C11, amended: the objective is the total arc cost plus 100 times the span
\* of the count dimension, which is the largest route load plus 1 (the end
\* cumul of the longest route; start cumuls are fixed to 0), not the spread
\* between the largest and the smallest load; for the clustered V = 2, J = 4
\* matrices every minimizer still gives each vehicle 2 jobs.
C11_ObjectiveIsLargestLoad ==
    solution /= <<>> =>
        /\ SolverObjective(solution) =
                RawTravel(solution, distance_matrix) + 100 * (SetMax(Loads(solution)) + 1)
        /\ Minimizes(solution) => Balanced(solution)

\* A minimizer, two jobs each, while one vehicle taking all four jobs would
\* travel less.
C11_Witness ==
    /\ solution /= <<>>
    /\ Minimizes(solution)
    /\ Balanced(solution)
    /\ \E other \in FeasibleRoutes :
            /\ 4 \in Loads(other)
            /\ RawTravel(other, distance_matrix) < RawTravel(solution, distance_matrix)

\* The single-vehicle request form {start_location, job_locations: [string]}.
IsSingleVehicleForm(req) ==
    /\ req.body = "object"
    /\ req.start_location > 0
    /\ req.job_locations /= <<>>
    /\ \A k \in 1..Len(req.job_locations) : req.job_locations[k] > 0

\* C13: /optimize accepts the single-vehicle form {start_location,
\* job_locations} as valid input (it is not rejected by validation) and a
\* success answer to it is the route form {optimized_route,
\* total_drive_time_minutes, stop_count}.
C13_SingleVehicleFormAccepted ==
    (IsSingleVehicleForm(request) /\ pc = "done") =>
        /\ response.status /= 400
        /\ response.status = 200 => response.kind = "route"

\* The index pairs (i, j) of the address list the provider cannot resolve.
BadIndexPairs ==
    {p \in (0..(Len(addresses) - 1)) \X (0..(Len(addresses) - 1)) :
        ProviderStatus(gmaps, addresses[p[1] + 1], addresses[p[2] + 1]) /= "OK"}

\* The number (from 1) of the block that holds pair p: blocks by origin chunk,
\* then destination chunk.
BlockOf(p) == (p[1] \div 10) * CeilDiv(Len(addresses), 10) + (p[2] \div 10) + 1

\* Pair p comes before pair q in the build's scan: earlier block, or the same
\* block and earlier row, or the same row and earlier column.
ScansBefore(p, q) ==
    \/ BlockOf(p) < BlockOf(q)
    \/ /\ BlockOf(p) = BlockOf(q)
       /\ \/ p[1] < q[1]
          \/ p[1] = q[1] /\ p[2] <= q[2]

EarliestBadPair == CHOOSE p \in BadIndexPairs : \A q \in BadIndexPairs : ScansBefore(p, q)

\* The build ended with the error of an unresolvable pair.
PairFailure ==
    /\ build_error.type = "ValueError"
    /\ build_error.error.msg = "Could not get drive time between"

\* C14: build_distance_matrix fails on the first unresolvable pair of its scan
\* (blocks by origin chunk then destination chunk, cells row by row): every
\* block answered before the build ended held no failing pair except the last
\* one; the error names the earliest failing pair and the status the provider
\* gave for it; the failing block is the last call issued; no block is asked
\* for twice; and a build that ended with an error returned no matrix.
C14_FailsOnFirstBadPair ==
    /\ \A k, l \in 1..Len(calls) :
            (calls[k].i_start = calls[l].i_start /\ calls[k].j_start = calls[l].j_start)
                => k = l
    /\ build_error /= NoException => (pc = "done" /\ distance_matrix = <<>>)
    /\ pc = "blocks" => \A p \in BadIndexPairs : BlockOf(p) > Len(calls)
    /\ (pc = "done" /\ BadIndexPairs /= {} /\ build_error.type \notin ProviderExceptions) =>
            /\ PairFailure
            /\ build_error.error.addr_from = addresses[EarliestBadPair[1] + 1]
            /\ build_error.error.addr_to = addresses[EarliestBadPair[2] + 1]
            /\ build_error.error.reason =
                    ProviderStatus(gmaps, addresses[EarliestBadPair[1] + 1],
                                   addresses[EarliestBadPair[2] + 1])
            /\ Len(calls) = BlockOf(EarliestBadPair)
            /\ distance_matrix = <<>>

\* Twelve distinct addresses, the eleventh unresolvable: 23 pairs fail, in
\* three of the four blocks; the first block is answered in full and the
\* build ends in the second call, naming the pair (0, 10).
C14_Witness ==
    /\ PairFailure
    /\ Len(addresses) = 12
    /\ addresses[11] = 11
    /\ Cardinality(BadIndexPairs) = 23
    /\ Len(calls) = 2
    /\ build_error.error.addr_from = 1
    /\ build_error.error.addr_to = 11
    /\ build_error.error.reason = "NOT_FOUND"

\* The name the caller sees for the entry at 1-based input position pos: the
\* submitted name, or "<kind> <pos>" when none was given.
ShownName(entry, kind, pos) ==
    IF entry.name > 0 THEN <<"name", entry.name>> ELSE <<kind, pos>>

\* C15: nodes are numbered technicians first ([0, V)), then jobs ([V, V+J)),
\* in input order, and the solver's routes are translated back the same way:
\* the entry of vehicle v carries the name and start location of the v-th
\* submitted technician, and the k-th node of its route, a node >= V, is
\* reported as the name and location of the submitted job at position
\* node - V; entries without a name are shown as "Technician i+1" / "Job i+1".
C15_NodeNumberingRoundTrip ==
    LET V == Len(SubmittedTechs)
        J == Len(SubmittedJobs)
    IN  /\ addresses /= <<>> =>
            /\ Len(addresses) = V + J
            /\ \A v \in 0..(V - 1) : addresses[v + 1] = SubmittedTechs[v + 1].loc
            /\ \A j \in 0..(J - 1) : addresses[V + j + 1] = SubmittedJobs[j + 1].loc
        /\ Succeeded =>
            \A v \in 0..(V - 1) :
                LET entry == response.assignments[v + 1]
                    route == solution[v + 1]
                IN  /\ entry.technician = ShownName(SubmittedTechs[v + 1], "Technician", v + 1)
                    /\ entry.start_location = SubmittedTechs[v + 1].loc
                    /\ Len(entry.stops) = Len(route)
                    /\ \A k \in 1..Len(route) :
                            /\ route[k] >= V
                            /\ entry.stops[k].job_name =
                                    ShownName(SubmittedJobs[route[k] - V + 1], "Job",
                                              route[k] - V + 1)
                            /\ entry.stops[k].location = SubmittedJobs[route[k] - V + 1].loc

\* Two unnamed technicians and three unnamed jobs; the solver gives node 4 to
\* vehicle 0 and nodes 3, 2 (in that order) to vehicle 1.
C15_Witness ==
    /\ Succeeded
    /\ solution = <<<<4>>, <<3, 2>>>>
    /\ response.assignments[2].technician = <<"Technician", 2>>
    /\ response.assignments[2].stops[1].job_name = <<"Job", 2>>
    /\ response.assignments[2].stops[2].job_name = <<"Job", 1>>
    /\ response.assignments[1].stops[1].job_name = <<"Job", 3>>

\* build_distance_matrix run to its end on its own, from block (i_st, j_st)
\* on, with provider g answering every call: the matrix it returns, or the
\* error it raises.
RECURSIVE BuildAlone(_, _, _, _, _)
BuildAlone(g, addrs, m, i_st, j_st) ==
    LET n == Len(addrs)
        rows == DistanceMatrixRows(g, Slice(addrs, i_st, i_st + 10), Slice(addrs, j_st, j_st + 10))
        j_next == IF j_st + 10 < n THEN j_st + 10 ELSE 0
        i_next == IF j_st + 10 < n THEN i_st ELSE i_st + 10
    IN  IF FailCells(rows) /= {}
        THEN [error |-> PairError(addrs, rows, i_st, j_st, FirstFail(rows)), matrix |-> <<>>]
        ELSE IF i_next < n
        THEN BuildAlone(g, addrs, WriteCells(m, rows, i_st, j_st, 0, Len(rows) * Len(rows[1])),
                        i_next, j_next)
        ELSE [error |-> NoException,
              matrix |-> WriteCells(m, rows, i_st, j_st, 0, Len(rows) * Len(rows[1]))]

\* The response to body req of a request that is the only one in the
\* process, when the provider behaves as g, the provider call or the solver
\* raised exc (NoException: neither raised) and the solver chose `routes`.
AloneResponse(req, g, exc, routes) ==
    LET techs == Cleaned(req.technicians.items, "Technician")
        jobs == Cleaned(req.jobs.items, "Job")
        addrs == [k \in 1..Len(techs) |-> techs[k].location]
                 \o [k \in 1..Len(jobs) |-> jobs[k].location]
        built == BuildAlone(g, addrs, ZeroMatrix(Len(addrs)), 0, 0)
    IN  IF Validate(req) /= NoResponse THEN Validate(req)
        ELSE IF ~GOOGLE_MAPS_API_KEY
        THEN ErrorResponse(422,
                SimpleError("GOOGLE_MAPS_API_KEY environment variable is not set."))
        ELSE IF exc.type \in ProviderExceptions THEN HandleException(exc)
        ELSE IF built.error /= NoException THEN HandleException(built.error)
        ELSE IF exc.type = "RuntimeError" THEN HandleException(exc)
        ELSE OptimizeResponse(ExtractResults(routes, built.matrix, Len(techs), Len(jobs)),
                              techs, jobs)

\* C12: concurrent /optimize requests share no mutable state: no two requests
\* hold the same matrix object, a request's matrix holds only what its own
\* provider reported for its own addresses, and the response of every request
\* that has ended is the response the same body gets when it runs alone with
\* the same provider behaviour and the same solver outcome, whatever the
\* other requests did in between.
C12_RequestsIndependent ==
    \A r \in DOMAIN frames :
        /\ \A q \in DOMAIN frames \ {r} :
                frames[r].matrix /= 0 => frames[q].matrix /= frames[r].matrix
        /\ frames[r].pc \in {"solve", "respond"} =>
                heap[frames[r].distance_matrix] =
                    BuildAlone(frames[r].gmaps, frames[r].addresses,
                               ZeroMatrix(Len(frames[r].addresses)), 0, 0).matrix
        /\ frames[r].pc = "done" =>
                frames[r].response =
                    AloneResponse(frames[r].request, frames[r].gmaps,
                                  frames[r].build_error, frames[r].solution)

\* Two different requests, their steps interleaved, both answered with
\* assignments computed from matrices with different content.
C12_Witness ==
    /\ overlapped
    /\ frames[1].pc = "done"
    /\ frames[2].pc = "done"
    /\ frames[1].response.kind = "assignments"
    /\ frames[2].response.kind = "assignments"
    /\ frames[1].request /= frames[2].request
    /\ heap[1] /= heap[2]
    /\ frames[1].response /= frames[2].response

====
